---- MODULE Spec2Model ----
(***************************************************************************)
(* Catalog: a media catalog front-end (home / detail / cricket views, a    *)
(* playback session over an Hls.js instance, debounced search) and the     *)
(* TMDB reverse proxy behind it.                                           *)
(*                                                                         *)
(* The client is the modular build: helpers.js, streaming.js, details.js,  *)
(* cricket.js, with the search box and the provider toggle of app.js.      *)
(* Every handler is a function from the page's state (a record whose       *)
(* fields are the program's variables) to the state it leaves; an action   *)
(* is one macrotask of the browser's event loop: a user event or the       *)
(* completion of one fetch, run to the end of its microtasks.              *)
(***************************************************************************)
EXTENDS Integers, Sequences, FiniteSets, Bags, TLC

(***************************************************************************)
(* Bounds of the model.                                                    *)
(***************************************************************************)
MaxEl == 2          \* player element pairs (video + status) one run renders
MaxHls == 2         \* Hls instances one run constructs
MaxInflight == 2    \* requests of the page in flight at the same time
MaxQueryLen == 2    \* characters of a search input value
MaxRequests == 2    \* requests the proxy receives in one run

\* constants of the program
SearchLimit == 10   \* (data.results || []).slice(0, 10)
RowLimit == 14      \* (data.results || []).slice(0, 14)

(***************************************************************************)
(* Data of the program.                                                    *)
(***************************************************************************)
Providers == {"vidlink", "filmex"}
\* what localStorage may hold under PROVIDER_STORAGE_KEY when the page loads
StoredValues == {"", "filmex", "other"}
\* Hls.js present and supported / native HLS only / neither
Browsers == {"hlsjs", "native", "none"}

MovieIds == {1}
TvIds == {1}
SeasonNumbers == {1}
\* episode_number 0 is falsy: fetchStreamUrlV2 rejects it before fetch
EpisodeNumbers == {0, 1}

NoHls == 0          \* currentHlsInstance = null
CricketEl == 0      \* the <video>/<p> pair of cricket.js's latest render()
DetachedEl == -1    \* a cricket <video> an earlier render() left behind
NoSrc == [type |-> "none", tmdbId |-> 0, season |-> 0, episode |-> 0,
          provider |-> ""]
NoPlayback == [kind |-> "none", movie |-> 0, tv |-> 0, season |-> 0,
               episode |-> 0, el |-> 0]
\* el: the player (video + status) the page holds, 0 when it holds none
EmptyPage == [page |-> "empty", movie |-> 0, tv |-> 0, season |-> 0,
              episode |-> 0, el |-> 0]

DetailEls == 1..MaxEl
Els == {CricketEl} \cup DetailEls

\* status texts
MsgMovieIdRequired == "tmdbId is required for movie playback."
MsgTvIdsRequired == "tmdbId, season and episode are required for TV playback."
MsgAnime == "Anime playback is not wired up in this UI yet."
MsgContactFailed == "Failed to contact streaming proxy."
MsgNotAvailable == "Streaming is not available for this title right now."
MsgProxyMessage == "proxy: message"
MsgProxyError == "proxy: error"
MsgHlsUnsupported == "HLS playback is not supported in this browser."
MsgStartFailed == "Failed to start playback."
ErrorTexts == {MsgMovieIdRequired, MsgTvIdsRequired, MsgAnime, MsgContactFailed,
               MsgNotAvailable, MsgProxyMessage, MsgProxyError,
               MsgHlsUnsupported, MsgStartFailed}

ProviderLabel(p) == IF p = "filmex" THEN "Filmex" ELSE "VidLink"
\* `Loading "${title}" via ${providerLabel}...`, whatever the title
LoadingViaText(p) == "Loading title via " \o ProviderLabel(p) \o "..."
ResolvingText(p) == "Resolving stream via " \o ProviderLabel(p) \o "..."

VARIABLES
  homeVisible, detailVisible, cricketVisible,  \* style.display # 'none'
  detailHTML,          \* what detailView.innerHTML renders
  currentProvider, storedProvider,
  currentHlsInstance,
  hls,                 \* the Hls instances constructed and not yet destroyed,
                       \* each with the element it is attached to
  nextHls,
  currentPlayback,
  nextEl,
  videoSrc,            \* src attribute of each <video>
  statusText,          \* textContent of each status <p>
  streamReqs,          \* GET /v2/stream requests in flight
  resolveCalls,        \* fetchStreamUrlV2 calls of the latest macrotask
  detailFetches,       \* fetchJson('/api/...') of openMovie/openTv/... in flight
  cricket,             \* the state object of cricket.js
  cricketReqs,         \* /v3/cricket requests in flight
  browser, loadingUtils,
  loadingToast,        \* the message of the '.toast.toast--loading' element
                       \* in the document ("" when there is none)
  resolver,            \* one call of fetchStreamUrlV2 from outside the page's
                       \* own starts, and the requests it has issued
  searchValue,         \* searchInput.value
  searchTimeout,       \* the variable of onSearchInput: undefined or a timer id
  timers,              \* the timers of setTimeout that are pending, oldest
                       \* first, each with the value its callback will search
                       \* and whether searchTimeout holds its id
  searchResults,       \* the dropdown: its items and its 'hidden' class
  searchReqs,          \* GET /api/search/multi requests of the page in flight
  proxy,               \* the requests the proxy has received, with the
                       \* upstream calls and the responses of each
  rows,                \* the home rows: the promise of each loadRow call, the
                       \* end of its fetch and the children of its container
  initRowsPromise,     \* the promise initRows() returned
  lastClick            \* the page the user asked for last (no variable of the
                       \* program: what a superseded request is measured by)

clientVars == <<homeVisible, detailVisible, cricketVisible, detailHTML,
                currentProvider, storedProvider, currentHlsInstance, hls,
                nextHls, currentPlayback, nextEl, videoSrc,
                statusText, streamReqs, resolveCalls, detailFetches,
                cricket, cricketReqs, browser, loadingUtils, loadingToast>>

searchVars == <<searchValue, searchTimeout, timers, searchResults, searchReqs>>

rowVars == <<rows, initRowsPromise>>

vars == <<clientVars, resolver, searchVars, proxy, rowVars, lastClick>>

\* the page's state as one record, and its installation as the next state
St ==
  [homeVisible |-> homeVisible, detailVisible |-> detailVisible,
   cricketVisible |-> cricketVisible, detailHTML |-> detailHTML,
   currentProvider |-> currentProvider, storedProvider |-> storedProvider,
   currentHlsInstance |-> currentHlsInstance, hls |-> hls,
   nextHls |-> nextHls,
   currentPlayback |-> currentPlayback, nextEl |-> nextEl,
   videoSrc |-> videoSrc, statusText |-> statusText,
   streamReqs |-> streamReqs, resolveCalls |-> <<>>,
   detailFetches |-> detailFetches,
   cricket |-> cricket, cricketReqs |-> cricketReqs,
   browser |-> browser, loadingUtils |-> loadingUtils,
   loadingToast |-> loadingToast]

Install(s) ==
  /\ homeVisible' = s.homeVisible
  /\ detailVisible' = s.detailVisible
  /\ cricketVisible' = s.cricketVisible
  /\ detailHTML' = s.detailHTML
  /\ currentProvider' = s.currentProvider
  /\ storedProvider' = s.storedProvider
  /\ currentHlsInstance' = s.currentHlsInstance
  /\ hls' = s.hls
  /\ nextHls' = s.nextHls
  /\ currentPlayback' = s.currentPlayback
  /\ nextEl' = s.nextEl
  /\ videoSrc' = s.videoSrc
  /\ statusText' = s.statusText
  /\ streamReqs' = s.streamReqs
  /\ resolveCalls' = s.resolveCalls
  /\ detailFetches' = s.detailFetches
  /\ cricket' = s.cricket
  /\ cricketReqs' = s.cricketReqs
  /\ browser' = s.browser
  /\ loadingUtils' = s.loadingUtils
  /\ loadingToast' = s.loadingToast

(***************************************************************************)
(* LoadingUtils (loaded or not: s.loadingUtils).  Of its toasts the one of *)
(* type 'loading' is kept: it has no timer and stays until it is removed.  *)
(***************************************************************************)
NoToast == ""

\* showToast(message, type, ...): the toasts of the same type are removed and
\* the new one appended
showToast(s, message, type) ==
  IF type = "loading" THEN [s EXCEPT !.loadingToast = message] ELSE s

\* hideAllToasts(type)
hideAllToasts(s, type) ==
  IF type = "loading" THEN [s EXCEPT !.loadingToast = NoToast] ELSE s

\* if (typeof window.LoadingUtils !== 'undefined') { ... }
IfLoadingUtils(s, then) == IF s.loadingUtils THEN then ELSE s

\* requests in flight are bags: any of them may complete next
Put(b, r) == b (+) SetToBag({r})
Take(b, r) == b (-) SetToBag({r})

(***************************************************************************)
(* streaming.js                                                            *)
(***************************************************************************)
getInitialProvider(stored) ==
  IF stored = "filmex" \/ stored = "vidlink" THEN stored ELSE "vidlink"

getCurrentProvider(s) ==
  IF s.currentProvider # "" THEN s.currentProvider ELSE "vidlink"

\* setCurrentProvider taking the value as it is given
setCurrentProviderUnvalidated(s, p, writable) ==
  [s EXCEPT !.currentProvider = p,
            !.storedProvider = IF writable THEN p ELSE @]

\* setCurrentProvider; writable: window.localStorage is there and its setItem
\* does not throw (otherwise the stored value stays as it is)
setCurrentProviderStorage(s, p, writable) ==
  LET provider == IF p # "vidlink" /\ p # "filmex" THEN "vidlink" ELSE p
  IN [s EXCEPT !.currentProvider = provider,
               !.storedProvider = IF writable THEN provider ELSE @]

\* ... over a storage that takes the value
setCurrentProvider(s, p) == setCurrentProviderStorage(s, p, TRUE)

\* destroy() releases the instance and detaches it from its element
cleanupHls(s) ==
  [s EXCEPT !.hls = [h \in DOMAIN s.hls \ {s.currentHlsInstance} |-> s.hls[h]],
            !.currentHlsInstance = NoHls]

\* videoEl.pause(); videoEl.removeAttribute('src'); videoEl.load()
resetVideo(s, el) == [s EXCEPT !.videoSrc[el] = NoSrc]

\* new Hls(); currentHlsInstance = hls; hls.loadSource(url); hls.attachMedia(videoEl)
newHls(s, el) ==
  [s EXCEPT !.currentHlsInstance = s.nextHls,
            !.hls = [h \in DOMAIN s.hls \cup {s.nextHls} |->
                       IF h = s.nextHls THEN el ELSE s.hls[h]],
            !.nextHls = @ + 1]

\* fetchStreamUrlV2 asking a series for its tmdbId only
ValidationErrorIdOnly(params) ==
  IF params.type = "movie"
  THEN IF params.tmdbId = 0 THEN MsgMovieIdRequired ELSE ""
  ELSE IF params.type = "tv"
  THEN IF params.tmdbId = 0 THEN MsgTvIdsRequired ELSE ""
  ELSE IF params.type = "anime" THEN MsgAnime ELSE ""

\* the checks of fetchStreamUrlV2 before it calls fetch: "" when they pass.
\* An identifier that is absent (undefined) or falsy is 0 here.
ValidationError(params) ==
  IF params.type = "movie"
  THEN IF params.tmdbId = 0 THEN MsgMovieIdRequired ELSE ""
  ELSE IF params.type = "tv"
  THEN IF params.tmdbId = 0 \/ params.season = 0 \/ params.episode = 0
       THEN MsgTvIdsRequired ELSE ""
  ELSE IF params.type = "anime" THEN MsgAnime ELSE ""

\* String(n) of a natural number
Digit(n) ==
  CASE n = 0 -> "0" [] n = 1 -> "1" [] n = 2 -> "2" [] n = 3 -> "3"
    [] n = 4 -> "4" [] n = 5 -> "5" [] n = 6 -> "6" [] n = 7 -> "7"
    [] n = 8 -> "8" [] n = 9 -> "9"
RECURSIVE NumberToString(_)
NumberToString(n) ==
  IF n < 10 THEN Digit(n) ELSE NumberToString(n \div 10) \o Digit(n % 10)

\* URLSearchParams.set(k, v): the pair named k takes the value, or is appended
SearchParamsSet(search, k, v) ==
  IF \E i \in 1..Len(search) : search[i][1] = k
  THEN [i \in 1..Len(search) |->
          IF search[i][1] = k THEN <<k, v>> ELSE search[i]]
  ELSE Append(search, <<k, v>>)

\* URLSearchParams.toString(): the pairs as k=v, joined by & (the names and
\* values of this model hold no character that is percent-encoded)
RECURSIVE SearchParamsToString(_)
SearchParamsToString(search) ==
  IF search = <<>> THEN ""
  ELSE IF Len(search) = 1 THEN search[1][1] \o "=" \o search[1][2]
  ELSE search[1][1] \o "=" \o search[1][2] \o "&"
         \o SearchParamsToString(Tail(search))

\* fetchStreamUrlV2 setting the provider after the identifiers
StreamQueryProviderLast(params, current) ==
  LET provider == IF params.provider # "" THEN params.provider ELSE current
      s0 == SearchParamsSet(<<>>, "type", params.type)
      s1 == SearchParamsSet(s0, "tmdbId", NumberToString(params.tmdbId))
      s2 == IF params.type = "tv"
            THEN SearchParamsSet(
                   SearchParamsSet(s1, "season", NumberToString(params.season)),
                   "episode", NumberToString(params.episode))
            ELSE s1
  IN IF params.type \in {"movie", "tv"}
     THEN SearchParamsSet(s2, "provider", provider)
     ELSE SearchParamsSet(s0, "provider", provider)

\* the URLSearchParams fetchStreamUrlV2 builds when its checks pass
StreamQuery(params, current) ==
  LET provider == IF params.provider # "" THEN params.provider ELSE current
      s0 == SearchParamsSet(<<>>, "type", params.type)
      s1 == IF provider # "" THEN SearchParamsSet(s0, "provider", provider)
            ELSE s0
      s2 == SearchParamsSet(s1, "tmdbId", NumberToString(params.tmdbId))
  IN IF params.type = "movie" THEN s2
     ELSE IF params.type = "tv"
     THEN SearchParamsSet(
            SearchParamsSet(s2, "season", NumberToString(params.season)),
            "episode", NumberToString(params.episode))
     ELSE s1

\* fetchStreamUrlV2 up to its await: the message it throws ("" when none)
\* and the requests it has issued
fetchStreamUrlV2Sync(params, current) ==
  LET err == ValidationError(params)
  IN [thrown |-> err,
      fetched |-> IF err = "" THEN <<StreamQuery(params, current)>> ELSE <<>>]

\* what the stream proxy may answer: no answer (network or JSON failure,
\* ok |-> "network"), null, or an object with ok, url, message, error and
\* details ("" for a field that is absent)
NoAnswer ==
  [ok |-> "network", url |-> "", message |-> "", error |-> "", details |-> ""]
NullAnswer ==
  [ok |-> "null", url |-> "", message |-> "", error |-> "", details |-> ""]
StreamAnswers ==
  {NoAnswer, NullAnswer}
    \cup [ok : {"true", "false"}, url : {"", "https://cdn/master.m3u8"},
          message : {"", MsgProxyMessage}, error : {"", MsgProxyError},
          details : {"", "proxy: details"}]

\* fetchStreamUrlV2 taking the response's error before its message
fetchStreamUrlV2DoneErrorFirst(data) ==
  IF data = NoAnswer THEN MsgContactFailed
  ELSE IF data = NullAnswer THEN MsgNotAvailable
  ELSE IF data.ok # "true" \/ data.url = ""
  THEN IF data.error # "" THEN data.error
       ELSE IF data.message # "" THEN data.message
       ELSE MsgNotAvailable
  ELSE ""

\* fetchStreamUrlV2 after its await: the message it throws, "" when it
\* returns data
fetchStreamUrlV2Done(data) ==
  IF data = NoAnswer THEN MsgContactFailed
  ELSE IF data = NullAnswer THEN MsgNotAvailable
  ELSE IF data.ok # "true" \/ data.url = ""
  THEN IF data.message # "" THEN data.message
       ELSE IF data.error # "" THEN data.error
       ELSE MsgNotAvailable
  ELSE ""

\* the Error fetchStreamUrlV2 throws after its await: err.code and
\* err.details are set from a response that is an object (data truthy)
fetchStreamUrlV2Error(data) ==
  [message |-> fetchStreamUrlV2Done(data),
   code |-> IF data \in {NoAnswer, NullAnswer} THEN "" ELSE data.error,
   details |-> IF data \in {NoAnswer, NullAnswer} THEN "" ELSE data.details]

\* loadStreamIntoVideo up to its await: reset the element, call
\* fetchStreamUrlV2, which throws or leaves a request in flight.
\* The result is the state and the message thrown ("" when none).
loadStreamIntoVideoSync(s, params, el) ==
  LET s1 == resetVideo(s, el)
      s2 == [s1 EXCEPT !.resolveCalls = Append(@, params)]
      err == ValidationError(params)
  IN IF err # ""
     THEN [state |-> s2, thrown |-> err]
     ELSE [state |-> [s2 EXCEPT !.streamReqs =
                        Put(@, [params |-> params, el |-> el])],
           thrown |-> ""]

\* the catch block of startMoviePlayback / startEpisodePlayback
showStartError(s, el, message) ==
  LET s1 == [s EXCEPT !.statusText[el] =
               IF message # "" THEN message ELSE MsgStartFailed]
  IN IfLoadingUtils(s1, hideAllToasts(s1, "loading"))

startPlayback(s, params, el) ==
  LET s0 == [s EXCEPT !.statusText[el] = ResolvingText(getCurrentProvider(s))]
      s1 == IfLoadingUtils(s0, showToast(s0, LoadingViaText(getCurrentProvider(s)),
                                         "loading"))
      r == loadStreamIntoVideoSync(s1, params, el)
  IN IF r.thrown # "" THEN showStartError(r.state, el, r.thrown) ELSE r.state

startMoviePlayback(s, movie, el) ==
  IF movie = 0 THEN s
  ELSE startPlayback(s, [type |-> "movie", tmdbId |-> movie, season |-> 0,
                         episode |-> 0, provider |-> getCurrentProvider(s)], el)

\* season and episode are objects here: always truthy, their numbers may be 0
startEpisodePlayback(s, tv, season, episode, el) ==
  IF tv = 0 THEN s
  ELSE startPlayback(s, [type |-> "tv", tmdbId |-> tv, season |-> season,
                         episode |-> episode,
                         provider |-> getCurrentProvider(s)], el)

\* loadStreamIntoVideo without its cleanupHls() call
attachResolvedOverOld(s, req) ==
  IF s.browser = "hlsjs"
  THEN [state |-> newHls(s, req.el), thrown |-> ""]
  ELSE IF s.browser = "native"
  THEN [state |-> [s EXCEPT !.videoSrc[req.el] = req.params], thrown |-> ""]
  ELSE [state |-> s, thrown |-> MsgHlsUnsupported]

\* loadStreamIntoVideo returning where no playback is possible
attachResolvedNoThrow(s, req) ==
  LET s1 == cleanupHls(s)
  IN IF s.browser = "hlsjs"
     THEN [state |-> newHls(s1, req.el), thrown |-> ""]
     ELSE IF s.browser = "native"
     THEN [state |-> [s1 EXCEPT !.videoSrc[req.el] = req.params], thrown |-> ""]
     ELSE [state |-> s1, thrown |-> ""]

\* loadStreamIntoVideo after fetchStreamUrlV2 returned data, to its end
attachResolved(s, req) ==
  LET s1 == cleanupHls(s)
  IN IF s.browser = "hlsjs"
     THEN [state |-> newHls(s1, req.el), thrown |-> ""]
     ELSE IF s.browser = "native"
     THEN [state |-> [s1 EXCEPT !.videoSrc[req.el] = req.params], thrown |-> ""]
     ELSE [state |-> s1, thrown |-> MsgHlsUnsupported]

\* the catch block asking the proxy again after a network failure
finishPlaybackRetry(s, req, outcome) ==
  IF outcome = "ok"
  THEN LET r == attachResolved(s, req)
       IN IF r.thrown # ""
          THEN showStartError(r.state, req.el, r.thrown)
          ELSE IF s.loadingUtils
               THEN hideAllToasts([r.state EXCEPT !.statusText[req.el] = ""],
                                  "loading")
               ELSE r.state
  ELSE IF outcome = "network"
  THEN [s EXCEPT !.streamReqs = Put(@, req)]
  ELSE showStartError(s, req.el, outcome)

\* the rest of startMoviePlayback / startEpisodePlayback once the request of
\* req has completed: outcome is "ok", "network" or the message of an
\* ok:false (or url-less) response
finishPlayback(s, req, outcome) ==
  IF outcome = "ok"
  THEN LET r == attachResolved(s, req)
       IN IF r.thrown # ""
          THEN showStartError(r.state, req.el, r.thrown)
          ELSE IF s.loadingUtils
               THEN hideAllToasts([r.state EXCEPT !.statusText[req.el] = ""],
                                  "loading")
               ELSE r.state
  ELSE IF outcome = "network"
  THEN showStartError(s, req.el, MsgContactFailed)
  ELSE showStartError(s, req.el, outcome)

(***************************************************************************)
(* cricket.js                                                              *)
(***************************************************************************)
Category(slug) == [slug |-> slug, name |-> slug]
CategoryLists == {<<>>, <<Category("t20"), Category("odi")>>}
MatchOf(slug) == [url |-> slug, title |-> slug]
MatchLists(slug) == {<<>>, <<MatchOf(slug)>>}
HlsStream == [url |-> "live.m3u8", format |-> ""]
Mp4Stream == [url |-> "live.mp4", format |-> "mp4"]
StreamLists == {<<>>, <<Mp4Stream>>, <<HlsStream, Mp4Stream>>}

CricketInitial ==
  [initialized |-> FALSE, loading |-> FALSE, error |-> "",
   categories |-> <<>>, selectedCategorySlug |-> "", matches |-> <<>>,
   selectedMatchUrl |-> "", streams |-> <<>>]

\* render() builds the view anew: a fresh <video> and status <p> replace the
\* ones of the previous render, which an attached Hls instance keeps
render(s) ==
  [s EXCEPT
     !.videoSrc[CricketEl] = NoSrc,
     !.statusText[CricketEl] =
        IF s.cricket.loading /\ Len(s.cricket.matches) > 0
        THEN "Loading streams..."
        ELSE "Select a match to start streaming.",
     !.hls = [h \in DOMAIN s.hls |->
                IF s.hls[h] = CricketEl THEN DetachedEl ELSE s.hls[h]]]

setLoading(s, isLoading) == render([s EXCEPT !.cricket.loading = isLoading])

setError(s, message) == render([s EXCEPT !.cricket.error = message])

\* /\.m3u8($|\?)/i.test(url)
IsM3u8(url) == url = "live.m3u8"

\* attachExternalStreamToVideo; the result is the state and the message thrown
attachExternalStreamToVideo(s, stream, el) ==
  IF stream.url = ""
  THEN [state |-> [s EXCEPT !.statusText[el] = "Stream is not available."],
        thrown |-> ""]
  ELSE
    LET s1 == [s EXCEPT !.statusText[el] = "Loading stream..."]
        s2 == resetVideo(cleanupHls(s1), el)
        isHlsFormat == stream.format = "hls" \/ IsM3u8(stream.url)
        done(x) == [state |-> [x EXCEPT !.statusText[el] = ""], thrown |-> ""]
    IN IF isHlsFormat
       THEN IF s.browser = "hlsjs" THEN done(newHls(s2, el))
            ELSE IF s.browser = "native"
            THEN done([s2 EXCEPT !.videoSrc[el] =
                         [NoSrc EXCEPT !.type = stream.url, !.provider = "cricket"]])
            ELSE [state |-> [s2 EXCEPT !.statusText[el] = MsgHlsUnsupported],
                  thrown |-> MsgHlsUnsupported]
       ELSE done([s2 EXCEPT !.videoSrc[el] =
                    [NoSrc EXCEPT !.type = stream.url, !.provider = "cricket"]])

\* playStream: videoEl is the element of the latest render
playStream(s, stream) ==
  IF stream.url = "" THEN s
  ELSE
    LET s0 == [s EXCEPT !.statusText[CricketEl] = "Loading stream..."]
        s1 == IfLoadingUtils(
                s0, showToast(s0, "Loading cricket stream... This may take a few seconds.",
                              "loading"))
        r == attachExternalStreamToVideo(s1, stream, CricketEl)
        s2 == IF r.thrown # ""
              THEN [r.state EXCEPT !.statusText[CricketEl] = r.thrown]
              ELSE IF s.loadingUtils
                   THEN [r.state EXCEPT !.statusText[CricketEl] = ""]
                   ELSE r.state
    IN IfLoadingUtils(s2, hideAllToasts(s2, "loading"))

\* the three loaders up to their await
loadCategoriesSync(s) ==
  LET s1 == setLoading(s, TRUE)
  IN [IfLoadingUtils(s1, showToast(s1, "Loading cricket categories...", "loading"))
        EXCEPT !.cricketReqs = Put(@, [kind |-> "categories", arg |-> ""])]

loadMatchesSync(s, slug) ==
  IF slug = "" THEN s
  ELSE LET s1 == setLoading(s, TRUE)
       IN [IfLoadingUtils(s1, showToast(s1, "Loading matches for category...",
                                        "loading"))
             EXCEPT !.cricketReqs = Put(@, [kind |-> "matches", arg |-> slug])]

loadStreamsSync(s, match) ==
  IF match.url = "" THEN s
  ELSE LET s1 == setLoading(s, TRUE)
       IN [IfLoadingUtils(s1, showToast(s1, "Resolving streams for match...",
                                        "loading"))
             EXCEPT !.cricketReqs = Put(@, [kind |-> "streams", arg |-> match.url])]

\* the loaders after their await: ok is the envelope's ok (FALSE also for a
\* network or JSON failure), data its data
loadCategoriesDone(s, ok, data) ==
  IF ok
  THEN LET s1 == [s EXCEPT !.cricket.categories = data]
       IN IF Len(data) > 0 /\ s.cricket.selectedCategorySlug = ""
          THEN \* await loadMatches(...): its completion ends with the render
               \* that the finally block of loadCategories repeats
               loadMatchesSync(
                 [s1 EXCEPT !.cricket.selectedCategorySlug = data[1].slug],
                 data[1].slug)
          ELSE LET s2 == setLoading(s1, FALSE)
               IN render(IfLoadingUtils(s2, hideAllToasts(s2, "loading")))
  ELSE LET s3 == [setError(s, "Failed to load cricket categories.")
                    EXCEPT !.cricket.loading = FALSE]
       IN render(IfLoadingUtils(s3, hideAllToasts(s3, "loading")))

loadMatchesDone(s, ok, data) ==
  IF ok
  THEN LET s1 == setLoading([s EXCEPT !.cricket.matches = data,
                                      !.cricket.selectedMatchUrl = "",
                                      !.cricket.streams = <<>>], FALSE)
       IN render(IfLoadingUtils(s1, hideAllToasts(s1, "loading")))
  ELSE LET s2 == [setError(s, "Failed to load matches for this category.")
                    EXCEPT !.cricket.loading = FALSE]
       IN render(IfLoadingUtils(s2, hideAllToasts(s2, "loading")))

loadStreamsDone(s, matchUrl, ok, data) ==
  IF ok
  THEN LET s0 == render(setLoading([s EXCEPT !.cricket.streams = data,
                                             !.cricket.selectedMatchUrl = matchUrl],
                                   FALSE))
           s1 == IfLoadingUtils(s0, hideAllToasts(s0, "loading"))
       IN IF Len(data) > 0 THEN playStream(s1, data[1])
          ELSE [s1 EXCEPT !.statusText[CricketEl] =
                  "No streams are currently available for this match."]
  ELSE LET s2 == [setError(s, "Failed to load streams for this match.")
                    EXCEPT !.cricket.loading = FALSE]
       IN IfLoadingUtils(s2, hideAllToasts(s2, "loading"))

onCategorySelected(s, category) ==
  IF category.slug = s.cricket.selectedCategorySlug THEN s
  ELSE loadMatchesSync([s EXCEPT !.cricket.selectedCategorySlug = category.slug,
                                 !.cricket.matches = <<>>,
                                 !.cricket.selectedMatchUrl = "",
                                 !.cricket.streams = <<>>],
                       category.slug)

onMatchSelected(s, match) == loadStreamsSync(s, match)

onStreamSelected(s, stream) == playStream(s, stream)

\* ensureInitialized without its state.initialized guard
ensureInitializedAlways(s) ==
  loadCategoriesSync(render([s EXCEPT !.cricket.initialized = TRUE]))

ensureInitialized(s) ==
  IF s.cricket.initialized THEN s
  ELSE loadCategoriesSync(render([s EXCEPT !.cricket.initialized = TRUE]))

(***************************************************************************)
(* details.js                                                              *)
(***************************************************************************)
showHome(s) ==
  [cleanupHls([s EXCEPT !.homeVisible = TRUE,
                        !.detailVisible = FALSE,
                        !.detailHTML = EmptyPage,
                        !.cricketVisible = FALSE])
     EXCEPT !.currentPlayback = NoPlayback]

\* showDetail without its cleanupHls() call
showDetailKeepsHls(s) ==
  [s EXCEPT !.homeVisible = FALSE,
            !.detailVisible = TRUE,
            !.cricketVisible = FALSE]

showDetail(s) ==
  cleanupHls([s EXCEPT !.homeVisible = FALSE,
                       !.detailVisible = TRUE,
                       !.cricketVisible = FALSE])

\* showCricket leaving the detail view as it is
showCricketOverDetail(s) ==
  LET s1 == [cleanupHls([s EXCEPT !.homeVisible = FALSE,
                                  !.cricketVisible = TRUE])
               EXCEPT !.currentPlayback = NoPlayback]
  IN ensureInitialized(
       IfLoadingUtils(s1, showToast(s1, "Loading cricket streams...", "loading")))

showCricket(s) ==
  LET s1 == [cleanupHls([s EXCEPT !.homeVisible = FALSE,
                                  !.detailVisible = FALSE,
                                  !.cricketVisible = TRUE])
               EXCEPT !.currentPlayback = NoPlayback]
  IN ensureInitialized(
       IfLoadingUtils(s1, showToast(s1, "Loading cricket streams...", "loading")))

\* document.createElement('video') and the status <p> beside it
createPlayer(s) ==
  [s EXCEPT !.videoSrc[s.nextEl] = NoSrc,
            !.statusText[s.nextEl] = ResolvingText(getCurrentProvider(s)),
            !.nextEl = @ + 1]

renderMovieDetail(s, movie) ==
  LET s1 == [showDetail(s) EXCEPT
               !.detailHTML = [EmptyPage EXCEPT !.page = "movie", !.movie = movie,
                                                !.el = s.nextEl]]
      s2 == [createPlayer(s1) EXCEPT
               !.currentPlayback = [NoPlayback EXCEPT !.kind = "movie",
                                                      !.movie = movie,
                                                      !.el = s.nextEl]]
  IN startMoviePlayback(s2, movie, s.nextEl)

renderTvSeasons(s, tv) ==
  [showDetail(s) EXCEPT
     !.detailHTML = [EmptyPage EXCEPT !.page = "seasons", !.tv = tv],
     !.currentPlayback = NoPlayback]

\* renderSeasonEpisodes without its window.currentPlayback = null
renderSeasonEpisodesKeepsSession(s, tv, season) ==
  [showDetail(s) EXCEPT
     !.detailHTML = [EmptyPage EXCEPT !.page = "episodes", !.tv = tv,
                                      !.season = season]]

renderSeasonEpisodes(s, tv, season) ==
  [showDetail(s) EXCEPT
     !.detailHTML = [EmptyPage EXCEPT !.page = "episodes", !.tv = tv,
                                      !.season = season],
     !.currentPlayback = NoPlayback]

renderEpisodeDetail(s, tv, season, episode) ==
  LET s1 == [showDetail(s) EXCEPT
               !.detailHTML = [EmptyPage EXCEPT !.page = "episode", !.tv = tv,
                                                !.season = season,
                                                !.episode = episode,
                                                !.el = s.nextEl]]
      s2 == [createPlayer(s1) EXCEPT
               !.currentPlayback = [NoPlayback EXCEPT !.kind = "tv", !.tv = tv,
                                                      !.season = season,
                                                      !.episode = episode,
                                                      !.el = s.nextEl]]
  IN startEpisodePlayback(s2, tv, season, episode, s.nextEl)

\* openMovie / openTv / openSeason / openEpisode up to their await
openDetail(s, op, id, season, episode) ==
  LET message == IF op = "movie" THEN "Loading movie details..."
                 ELSE IF op = "tv" THEN "Loading series details..."
                 ELSE IF op = "season" THEN "Loading Season n..."
                 ELSE "Loading episode details..."
  IN [IfLoadingUtils(s, showToast(s, message, "loading"))
        EXCEPT !.detailFetches =
          Put(@, [op |-> op, id |-> id, season |-> season, episode |-> episode])]

openMovie(s, id) == openDetail(s, "movie", id, 0, 0)
openTv(s, id) == openDetail(s, "tv", id, 0, 0)
openSeason(s, tvId, seasonNumber) == openDetail(s, "season", tvId, seasonNumber, 0)
openEpisode(s, tvId, seasonNumber, episodeNumber) ==
  openDetail(s, "episode", tvId, seasonNumber, episodeNumber)

\* the completion dropped when the user has gone to the cricket view
openDetailDoneUnlessCricket(s, f, ok) ==
  LET s1 == IF ~ok \/ s.cricketVisible THEN s
            ELSE IF f.op = "movie" THEN renderMovieDetail(s, f.id)
            ELSE IF f.op = "tv" THEN renderTvSeasons(s, f.id)
            ELSE IF f.op = "season" THEN renderSeasonEpisodes(s, f.id, f.season)
            ELSE renderEpisodeDetail(s, f.id, f.season, f.episode)
  IN IfLoadingUtils(s1, hideAllToasts(s1, "loading"))

\* ... and after it: fetchJson threw (ok = FALSE) or returned the title asked for
openDetailDone(s, f, ok) ==
  LET s1 == IF ~ok THEN s
            ELSE IF f.op = "movie" THEN renderMovieDetail(s, f.id)
            ELSE IF f.op = "tv" THEN renderTvSeasons(s, f.id)
            ELSE IF f.op = "season" THEN renderSeasonEpisodes(s, f.id, f.season)
            ELSE renderEpisodeDetail(s, f.id, f.season, f.episode)
  IN IfLoadingUtils(s1, hideAllToasts(s1, "loading"))

\* navigateToItem opening what is no series as a movie
navigateToItemDefaultMovie(s, item, typeHint) ==
  LET mediaType == IF item.media_type # "" THEN item.media_type ELSE typeHint
  IN IF item.id = 0 \/ mediaType = "" THEN s
     ELSE IF mediaType = "tv" THEN openTv(s, item.id)
     ELSE openMovie(s, item.id)

navigateToItem(s, item, typeHint) ==
  LET mediaType == IF item.media_type # "" THEN item.media_type ELSE typeHint
  IN IF item.id = 0 \/ mediaType = "" THEN s
     ELSE IF mediaType = "movie" THEN openMovie(s, item.id)
     ELSE IF mediaType = "tv" THEN openTv(s, item.id)
     ELSE s

(***************************************************************************)
(* app.js: the provider toggle                                             *)
(***************************************************************************)
replayCurrentPlayback(s) ==
  LET cp == s.currentPlayback
      s1 == [s EXCEPT !.statusText[cp.el] = ResolvingText(getCurrentProvider(s))]
  IN IF cp.kind = "none" THEN s
     ELSE IF cp.kind = "movie" /\ cp.movie # 0
     THEN startMoviePlayback(s1, cp.movie, cp.el)
     ELSE IF cp.kind = "tv" /\ cp.tv # 0
     THEN startEpisodePlayback(s1, cp.tv, cp.season, cp.episode, cp.el)
     ELSE s1

\* the click handler without its setCurrentProvider(provider) call
providerClickKeepsProvider(s, provider) == replayCurrentPlayback(s)

providerClick(s, provider) == replayCurrentPlayback(setCurrentProvider(s, provider))

(***************************************************************************)
(* app.js: the home rows.  The children of a container are a sequence of   *)
(* cards (item, typeHint) and texts.                                       *)
(***************************************************************************)
rowsConfig ==
  <<[id |-> "popular-movies", endpoint |-> "/api/movies/popular", type |-> "movie"],
    [id |-> "popular-tv", endpoint |-> "/api/tv/popular", type |-> "tv"],
    [id |-> "featured-movies", endpoint |-> "/api/movies/featured", type |-> "movie"],
    [id |-> "featured-tv", endpoint |-> "/api/tv/featured", type |-> "tv"]>>

\* how the fetch of row k may end: fetchJson threw (ok = FALSE), or returned
\* an object whose results (<<>> also when the field is missing) are titles
\* of the row's list
RowOutcomes(k) ==
  {[ok |-> FALSE, results |-> <<>>]}
    \cup {[ok |-> TRUE,
           results |-> [i \in 1..n |-> [id |-> 100 * k + i, media_type |-> ""]]] :
            n \in {0, 1, RowLimit + 1}}

\* loadRow without its catch block
loadRowNoCatch(config, outcome) ==
  IF ~outcome.ok
  THEN [settled |-> "rejected", fetch |-> outcome, content |-> <<>>]
  ELSE [settled |-> "fulfilled", fetch |-> outcome,
        content |-> [i \in 1..Len(outcome.results) |->
                       [item |-> outcome.results[i], typeHint |-> config.type]]]

\* loadRow after its await, to the end: the promise it returned and the
\* children of its container, which it had emptied before the await
loadRowDone(config, outcome) ==
  LET items == SubSeq(outcome.results, 1,
                      IF Len(outcome.results) < RowLimit
                      THEN Len(outcome.results) ELSE RowLimit)
  IN [settled |-> "fulfilled", fetch |-> outcome,
      content |->
        IF ~outcome.ok THEN <<"Failed to load content.">>
        ELSE IF Len(items) = 0 THEN <<"No titles available.">>
        ELSE [i \in 1..Len(items) |->
                [item |-> items[i], typeHint |-> config.type]]]

(***************************************************************************)
(* The page after DOMContentLoaded: showHome() has run and cricket.js has  *)
(* initialised itself (its categories request is in flight).               *)
(***************************************************************************)
Loaded(stored, br, lu) ==
  [homeVisible |-> TRUE, detailVisible |-> FALSE, cricketVisible |-> FALSE,
   detailHTML |-> EmptyPage,
   currentProvider |-> getInitialProvider(stored), storedProvider |-> stored,
   currentHlsInstance |-> NoHls, hls |-> <<>>, nextHls |-> 1,
   currentPlayback |-> NoPlayback, nextEl |-> 1,
   videoSrc |-> [e \in Els |-> NoSrc], statusText |-> [e \in Els |-> ""],
   streamReqs |-> EmptyBag, resolveCalls |-> <<>>, detailFetches |-> EmptyBag,
   cricket |-> CricketInitial, cricketReqs |-> EmptyBag,
   browser |-> br, loadingUtils |-> lu, loadingToast |-> NoToast]

(***************************************************************************)
(* app.js: the search box.  An input value is a sequence of characters.    *)
(***************************************************************************)
SearchChars == {" ", "a"}
SearchValues == UNION {[1..n -> SearchChars] : n \in 0..MaxQueryLen}

RECURSIVE TrimStart(_)
TrimStart(v) == IF v # <<>> /\ Head(v) = " " THEN TrimStart(Tail(v)) ELSE v
RECURSIVE TrimEnd(_)
TrimEnd(v) ==
  IF v # <<>> /\ v[Len(v)] = " " THEN TrimEnd(SubSeq(v, 1, Len(v) - 1)) ELSE v
\* String.prototype.trim
Trim(v) == TrimEnd(TrimStart(v))

encodeURIComponent(v) == [i \in 1..Len(v) |-> IF v[i] = " " THEN "%20" ELSE v[i]]

MovieResult == [id |-> 1, media_type |-> "movie", title |-> <<"a">>]
TvResult == [id |-> 1, media_type |-> "tv", title |-> <<"a", "a">>]
PersonResult == [id |-> 1, media_type |-> "person", title |-> <<"a", " ", "a">>]
\* data.results of a search response (<<>> also when the field is missing)
SearchAnswers ==
  {<<>>, <<MovieResult>>, <<TvResult, PersonResult>>,
   <<[MovieResult EXCEPT !.id = 0]>>,
   [i \in 1..(SearchLimit + 1) |-> MovieResult]}

NoTimeout == "undefined"
NoResults == [items |-> <<>>, hidden |-> TRUE]

\* the search box's state as one record
Ss == [value |-> searchValue, timeout |-> searchTimeout, timers |-> timers,
       results |-> searchResults, reqs |-> searchReqs]

InstallSearch(s) ==
  /\ searchValue' = s.value
  /\ searchTimeout' = s.timeout
  /\ timers' = s.timers
  /\ searchResults' = s.results
  /\ searchReqs' = s.reqs

clearSearchResults(s) == [s EXCEPT !.results = NoResults]

renderSearchResults(s, results) ==
  IF Len(results) = 0 THEN clearSearchResults(s)
  ELSE [s EXCEPT !.results = [items |-> results, hidden |-> FALSE]]

\* performSearch up to its await
performSearch(s, query) ==
  IF Len(query) = 0 \/ Len(Trim(query)) = 0 THEN clearSearchResults(s)
  ELSE [s EXCEPT !.reqs = Put(@, encodeURIComponent(Trim(query)))]

\* ... and after it: fetchJson threw (ok = FALSE) or returned data
performSearchDone(s, ok, results) ==
  IF ok
  THEN renderSearchResults(
         s, SubSeq(results, 1, IF Len(results) < SearchLimit THEN Len(results)
                               ELSE SearchLimit))
  ELSE clearSearchResults(s)

\* clearTimeout(searchTimeout): the timer whose id the variable holds is
\* pending no more (nothing happens when it has fired already)
clearTimeout(s) ==
  [s EXCEPT !.timers = SelectSeq(@, LAMBDA tm : ~tm.latest)]

\* searchTimeout = setTimeout(() => performSearch(value), 350)
setTimeout(s, value) ==
  [s EXCEPT !.timers = Append([i \in 1..Len(@) |-> [@[i] EXCEPT !.latest = FALSE]],
                              [value |-> value, latest |-> TRUE]),
            !.timeout = "id"]

\* onSearchInput clearing the dropdown for the empty value only
onSearchInputEmptyOnly(s, value) ==
  LET s0 == [s EXCEPT !.value = value]
      s1 == IF s.timeout # NoTimeout THEN clearTimeout(s0) ELSE s0
  IN IF Len(value) = 0 THEN clearSearchResults(s1)
     ELSE setTimeout(s1, value)

\* onSearchInput without its clearTimeout
onSearchInputNoClear(s, value) ==
  LET s1 == [s EXCEPT !.value = value]
  IN IF Len(Trim(value)) = 0 THEN clearSearchResults(s1)
     ELSE setTimeout(s1, value)

\* onSearchInput: the input already holds the value of the event
onSearchInput(s, value) ==
  LET s0 == [s EXCEPT !.value = value]
      s1 == IF s.timeout # NoTimeout THEN clearTimeout(s0) ELSE s0
  IN IF Len(Trim(value)) = 0 THEN clearSearchResults(s1)
     ELSE setTimeout(s1, value)

\* the callback of the i-th pending timer
onSearchTimeout(s, i) ==
  performSearch(
    [s EXCEPT !.timers = [j \in 1..(Len(@) - 1) |-> IF j < i THEN @[j] ELSE @[j + 1]]],
    s.timers[i].value)

\* the click listener of a result: the part that touches the search box
onResultClick(s, item) == clearSearchResults([s EXCEPT !.value = item.title])

InitSearch ==
  /\ searchValue = <<>>
  /\ searchTimeout = NoTimeout
  /\ timers = <<>>
  /\ searchResults = NoResults
  /\ searchReqs = EmptyBag

(***************************************************************************)
(* The TMDB proxy (Express).  A JSON text is its sequence of tokens, which *)
(* may hold white space; the value it denotes is the sequence without.     *)
(***************************************************************************)
JsonParse(text) == SelectSeq(text, LAMBDA tok : tok # " ")
JsonStringify(value) == value

EmptyResultsValue == <<"{", "results", ":", "[", "]", "}">>
ErrorValue == <<"{", "error", ":", "Failed to fetch data from TMDB", "}">>
UpstreamTexts ==
  {<<"{", " ", "results", ":", " ", "[", "]", " ", "}">>,
   <<"{", "id", ":", "603", "}">>}

Endpoints ==
  {"search", "moviesPopular", "tvPopular", "moviesFeatured", "tvFeatured",
   "movie", "tv", "season", "episode"}
\* req.query.query: absent, or the string given
QueryParams == {[present |-> FALSE, value |-> ""], [present |-> TRUE, value |-> ""],
                [present |-> TRUE, value |-> "dune"]}
ProxyRequests ==
  {[endpoint |-> e, query |-> q, id |-> "603", seasonNumber |-> "1",
    episodeNumber |-> "2"] : e \in Endpoints \ {"search"},
                              q \in {[present |-> FALSE, value |-> ""]}}
    \cup {[endpoint |-> "search", query |-> q, id |-> "603",
           seasonNumber |-> "1", episodeNumber |-> "2"] : q \in QueryParams}

\* what a call of tmdb.get ends with: data, an error with a response, or an
\* error without one
NoOutcome == [kind |-> "none", status |-> 0, text |-> <<>>]
UpstreamOutcomes ==
  {[kind |-> "ok", status |-> 200, text |-> x] : x \in UpstreamTexts}
    \cup {[kind |-> "status", status |-> c, text |-> <<>>] : c \in {404, 429}}
    \cup {[kind |-> "noresponse", status |-> 0, text |-> <<>>]}

\* !query, query absent counted
queryAbsentOnly(q) == ~q.present

\* !query
queryMissing(q) == ~q.present \/ q.value = ""

\* the call of tmdb.get each handler makes
UpstreamCall(req) ==
  LET get(path, query, include, append) ==
        [path |-> path, query |-> query, include_adult |-> include,
         append_to_response |-> append]
  IN CASE req.endpoint = "search" ->
            get("/search/multi", req.query.value, "false", "")
       [] req.endpoint = "moviesPopular" -> get("/movie/popular", "", "", "")
       [] req.endpoint = "tvPopular" -> get("/tv/popular", "", "", "")
       [] req.endpoint = "moviesFeatured" -> get("/movie/top_rated", "", "", "")
       [] req.endpoint = "tvFeatured" -> get("/tv/top_rated", "", "", "")
       [] req.endpoint = "movie" ->
            get("/movie/" \o req.id, "", "", "credits,recommendations")
       [] req.endpoint = "tv" ->
            get("/tv/" \o req.id, "", "", "credits,recommendations")
       [] req.endpoint = "season" ->
            get("/tv/" \o req.id \o "/season/" \o req.seasonNumber, "", "", "")
       [] req.endpoint = "episode" ->
            get("/tv/" \o req.id \o "/season/" \o req.seasonNumber
                  \o "/episode/" \o req.episodeNumber, "", "", "credits")

\* res.json(data)
resJson(value) == [status |-> 200, body |-> JsonStringify(value)]

\* handleTmdbError answering 500 whatever the upstream said
handleTmdbErrorAlways500(error) ==
  [status |-> 500, body |-> JsonStringify(ErrorValue)]

handleTmdbError(error) ==
  [status |-> IF error.kind = "status" /\ error.status # 0
              THEN error.status ELSE 500,
   body |-> JsonStringify(ErrorValue)]

\* a handler up to its await (the search handler may answer at once)
proxyHandle(req) ==
  IF req.endpoint = "search" /\ queryMissing(req.query)
  THEN [req |-> req, upstream |-> <<>>, pending |-> FALSE,
        outcome |-> NoOutcome, responses |-> <<resJson(EmptyResultsValue)>>]
  ELSE [req |-> req, upstream |-> <<UpstreamCall(req)>>, pending |-> TRUE,
        outcome |-> NoOutcome, responses |-> <<>>]

\* ... and after it
proxyHandleDone(entry, outcome) ==
  [entry EXCEPT
     !.pending = FALSE,
     !.outcome = outcome,
     !.responses = Append(@, IF outcome.kind = "ok"
                             THEN resJson(JsonParse(outcome.text))
                             ELSE handleTmdbError(outcome))]

InitProxy == proxy = <<>>

\* initRows() has called loadRow for the four rows: each has emptied its
\* container and awaits its fetch; Promise.all awaits the four
InitRows ==
  /\ rows = [k \in 1..Len(rowsConfig) |->
              [settled |-> "pending", fetch |-> [ok |-> FALSE, results |-> <<>>],
               content |-> <<>>]]
  /\ initRowsPromise = "pending"

\* answer: what the request of the call ended with, once it has
Unanswered ==
  [ok |-> "unanswered", url |-> "", message |-> "", error |-> "", details |-> ""]
ResolverIdle ==
  [pc |-> "idle", params |-> NoSrc, fetched |-> <<>>, answer |-> Unanswered,
   thrown |-> "", code |-> "", details |-> ""]
InitResolver == resolver = ResolverIdle

InitClient ==
  \E stored \in StoredValues, br \in Browsers, lu \in BOOLEAN :
    LET s == ensureInitialized(showHome(Loaded(stored, br, lu)))
    IN /\ homeVisible = s.homeVisible
       /\ detailVisible = s.detailVisible
       /\ cricketVisible = s.cricketVisible
       /\ detailHTML = s.detailHTML
       /\ currentProvider = s.currentProvider
       /\ storedProvider = s.storedProvider
       /\ currentHlsInstance = s.currentHlsInstance
       /\ hls = s.hls
       /\ nextHls = s.nextHls
       /\ currentPlayback = s.currentPlayback
       /\ nextEl = s.nextEl
       /\ videoSrc = s.videoSrc
       /\ statusText = s.statusText
       /\ streamReqs = s.streamReqs
       /\ resolveCalls = s.resolveCalls
       /\ detailFetches = s.detailFetches
       /\ cricket = s.cricket
       /\ cricketReqs = s.cricketReqs
       /\ browser = s.browser
       /\ loadingUtils = s.loadingUtils
       /\ loadingToast = s.loadingToast

\* a page asked for: a view, or a title by the request that opens it
Asked(op, id, season, episode) ==
  [op |-> op, id |-> id, season |-> season, episode |-> episode]

Init ==
  /\ InitClient /\ InitResolver /\ InitSearch /\ InitProxy /\ InitRows
  /\ lastClick = Asked("home", 0, 0, 0)

\* one of these pages: Hls.js supported, LoadingUtils loaded, nothing stored
InitOnePage == Init /\ browser = "hlsjs" /\ loadingUtils /\ storedProvider = ""

(***************************************************************************)
(* Events.  The guards that name a bound keep the model finite; the others *)
(* say when the control that raises the event is on screen.                *)
(***************************************************************************)
\* the cards of the home rows: popular / featured lists carry no media_type
HomeCards ==
  {[item |-> [id |-> i, media_type |-> ""], typeHint |-> "movie"] : i \in MovieIds}
  \cup {[item |-> [id |-> i, media_type |-> ""], typeHint |-> "tv"] : i \in TvIds}

InFlight(s) ==
  BagCardinality(s.detailFetches) + BagCardinality(s.streamReqs)
    + BagCardinality(s.cricketReqs)
\* the event leaves s: the requests in flight stay within the bound
Bounded(s) ==
  /\ InFlight(s) <= MaxInflight
  /\ s.nextEl <= MaxEl + 1
  /\ s.nextHls <= MaxHls + 1
\* A player is gone once the document has dropped it (innerHTML replaced)
\* and no session, request in flight or Hls instance holds it any more.
Referenced(s, e) ==
  \/ s.detailHTML.el = e
  \/ s.currentPlayback.kind # "none" /\ s.currentPlayback.el = e
  \/ \E r \in BagToSet(s.streamReqs) : r.el = e
  \/ \E h \in DOMAIN s.hls : s.hls[h] = e
Collect(s) ==
  [s EXCEPT
     !.videoSrc = [e \in Els |-> IF e = CricketEl \/ Referenced(s, e)
                                  THEN s.videoSrc[e] ELSE NoSrc],
     !.statusText = [e \in Els |-> IF e = CricketEl \/ Referenced(s, e)
                                    THEN s.statusText[e] ELSE ""]]
DoClient(s) == Bounded(s) /\ Install(Collect(s))
Do(s) == DoClient(s) /\ UNCHANGED <<resolver, searchVars, proxy, rowVars, lastClick>>
\* a click that asks for a page
Nav(s, asked) ==
  /\ DoClient(s)
  /\ lastClick' = asked
  /\ UNCHANGED <<resolver, searchVars, proxy, rowVars>>

HomeButtonClick == Nav(showHome(St), Asked("home", 0, 0, 0))

CricketButtonClick == Nav(showCricket(St), Asked("cricket", 0, 0, 0))

\* the click listener createCard gives every card; the listener that
\* navigates was added after it and runs after it
createCardClick(s) ==
  IfLoadingUtils(s, showToast(s, "Opening name...", "loading"))

CardClick(card) ==
  /\ homeVisible
  /\ Nav(navigateToItem(createCardClick(St), card.item, card.typeHint),
         Asked(card.typeHint, card.item.id, 0, 0))

RecommendationClick(id) ==
  /\ detailVisible /\ detailHTML.page = "movie"
  /\ Nav(navigateToItem(createCardClick(St),
                        [id |-> id, media_type |-> "movie"], "movie"),
         Asked("movie", id, 0, 0))

SeasonClick(n) ==
  /\ detailVisible /\ detailHTML.page = "seasons"
  /\ Nav(openSeason(St, detailHTML.tv, n), Asked("season", detailHTML.tv, n, 0))

EpisodeClick(e) ==
  /\ detailVisible /\ detailHTML.page = "episodes"
  /\ Nav(openEpisode(St, detailHTML.tv, detailHTML.season, e),
         Asked("episode", detailHTML.tv, detailHTML.season, e))

BackToSeasonsClick ==
  /\ detailVisible /\ detailHTML.page = "episodes"
  /\ Nav(renderTvSeasons(St, detailHTML.tv), Asked("tv", detailHTML.tv, 0, 0))

BackToEpisodesClick ==
  /\ detailVisible /\ detailHTML.page = "episode"
  /\ Nav(renderSeasonEpisodes(St, detailHTML.tv, detailHTML.season),
         Asked("season", detailHTML.tv, detailHTML.season, 0))

DetailFetchDone(f, ok) ==
  /\ BagIn(f, detailFetches)
  /\ Do(openDetailDone([St EXCEPT !.detailFetches = Take(@, f)], f, ok))

ProviderClick(p) ==
  /\ Do(providerClick(St, p))

StreamOutcomes == {"ok", "network", MsgProxyMessage}

StreamDone(req, outcome) ==
  /\ BagIn(req, streamReqs)
  /\ Do(finishPlayback([St EXCEPT !.streamReqs = Take(@, req)],
                            req, outcome))

CategoryClick(i) ==
  /\ cricketVisible
  /\ i \in 1..Len(cricket.categories)
  /\ Do(onCategorySelected(St, cricket.categories[i]))

MatchClick(i) ==
  /\ cricketVisible
  /\ i \in 1..Len(cricket.matches)
  /\ Do(onMatchSelected(St, cricket.matches[i]))

StreamChipClick(i) ==
  /\ cricketVisible
  /\ i \in 1..Len(cricket.streams)
  /\ Do(onStreamSelected(St, cricket.streams[i]))

CricketDone(r, ok, data) ==
  /\ BagIn(r, cricketReqs)
  /\ LET s == [St EXCEPT !.cricketReqs = Take(@, r)]
     IN IF r.kind = "categories" THEN Do(loadCategoriesDone(s, ok, data))
        ELSE IF r.kind = "matches" THEN Do(loadMatchesDone(s, ok, data))
        ELSE Do(loadStreamsDone(s, r.arg, ok, data))

\* what the cricket service answers when it has everything
CricketData(r) ==
  IF r.kind = "categories" THEN <<Category("t20"), Category("odi")>>
  ELSE IF r.kind = "matches" THEN <<MatchOf(r.arg)>>
  ELSE <<HlsStream, Mp4Stream>>

(***************************************************************************)
(* Spec: the page with its detail navigation, playback sessions, provider  *)
(* toggle and view switching, and the cricket view over a service that     *)
(* answers every request in full.                                          *)
(***************************************************************************)
Next ==
  \/ HomeButtonClick
  \/ CricketButtonClick
  \/ \E card \in HomeCards : CardClick(card)
  \/ \E id \in MovieIds : RecommendationClick(id)
  \/ \E n \in SeasonNumbers : SeasonClick(n)
  \/ \E e \in EpisodeNumbers : EpisodeClick(e)
  \/ BackToSeasonsClick
  \/ BackToEpisodesClick
  \/ \E f \in BagToSet(detailFetches), ok \in BOOLEAN : DetailFetchDone(f, ok)
  \/ \E p \in Providers : ProviderClick(p)
  \/ \E req \in BagToSet(streamReqs), outcome \in StreamOutcomes :
       StreamDone(req, outcome)
  \/ MatchClick(1)
  \/ \E i \in 1..2 : StreamChipClick(i)
  \/ \E r \in BagToSet(cricketReqs) : CricketDone(r, TRUE, CricketData(r))

Spec == Init /\ [][Next]_vars

(***************************************************************************)
(* SpecResolve: fetchStreamUrlV2 called with any parameters, one call at a *)
(* time.                                                                   *)
(***************************************************************************)
ResolveTypes == {"movie", "tv", "anime", "other"}
ResolveIds == {0, 7, 1399}
ResolveParams ==
  [type : ResolveTypes, tmdbId : ResolveIds, season : {0, 1},
   episode : {0, 1, 12}, provider : {"", "filmex"}]

ResolveCall(params) ==
  /\ resolver.pc # "awaiting"
  /\ LET r == fetchStreamUrlV2Sync(params, getCurrentProvider(St))
     IN resolver' = [ResolverIdle EXCEPT
                       !.pc = IF r.thrown # "" THEN "thrown" ELSE "awaiting",
                       !.params = params, !.fetched = r.fetched,
                       !.thrown = r.thrown]
  /\ UNCHANGED <<clientVars, searchVars, proxy, rowVars, lastClick>>

ResolveDone(data) ==
  /\ resolver.pc = "awaiting"
  /\ LET err == fetchStreamUrlV2Error(data)
     IN resolver' =
          IF err.message # ""
          THEN [resolver EXCEPT !.pc = "thrown", !.answer = data,
                                !.thrown = err.message, !.code = err.code,
                                !.details = err.details]
          ELSE [resolver EXCEPT !.pc = "returned", !.answer = data]
  /\ UNCHANGED <<clientVars, searchVars, proxy, rowVars, lastClick>>

NextResolve ==
  \/ \E params \in ResolveParams : ResolveCall(params)
  \/ \E data \in StreamAnswers : ResolveDone(data)

SpecResolve == Init /\ [][NextResolve]_vars

\* the call lacks an identifier its type requires
MissingIdentifier(params) ==
  \/ params.type = "movie" /\ params.tmdbId = 0
  \/ params.type = "tv"
       /\ (params.tmdbId = 0 \/ params.season = 0 \/ params.episode = 0)

\* C7: a call of fetchStreamUrlV2 for a movie without tmdbId, or for a series
\* without tmdbId, season or episode, has thrown and has issued no request.
C7_MissingIdsThrowBeforeFetch ==
  (resolver.pc # "idle" /\ MissingIdentifier(resolver.params)) =>
    /\ resolver.pc = "thrown"
    /\ resolver.thrown \in {MsgMovieIdRequired, MsgTvIdsRequired}
    /\ resolver.fetched = <<>>

\* a series call that has its tmdbId and season and lacks only the episode
C7_Witness ==
  /\ resolver.pc = "thrown"
  /\ resolver.params.type = "tv"
  /\ resolver.params.tmdbId # 0 /\ resolver.params.season # 0
  /\ resolver.params.episode = 0
  /\ resolver.thrown = MsgTvIdsRequired
  /\ resolver.fetched = <<>>

\* C11: a call of fetchStreamUrlV2 for a movie or a series that has the
\* identifiers its type requires has issued exactly one request, whose query
\* string is type, provider, tmdbId and, for a series, season and episode, in
\* this order and with the values of the call (the provider of the call, or
\* the active provider when the call names none); a movie's query has no
\* season and no episode.
C11_QueryInOrder ==
  LET params == resolver.params
      provider == IF params.provider # "" THEN params.provider
                  ELSE getCurrentProvider(St)
      expected ==
        "type=" \o params.type \o "&provider=" \o provider
          \o "&tmdbId=" \o NumberToString(params.tmdbId)
          \o (IF params.type = "tv"
              THEN "&season=" \o NumberToString(params.season)
                     \o "&episode=" \o NumberToString(params.episode)
              ELSE "")
  IN (/\ resolver.pc # "idle"
      /\ params.type \in {"movie", "tv"}
      /\ ~MissingIdentifier(params)) =>
       /\ Len(resolver.fetched) = 1
       /\ SearchParamsToString(resolver.fetched[1]) = expected
       /\ params.type = "movie" =>
            \A i \in 1..Len(resolver.fetched[1]) :
              resolver.fetched[1][i][1] \notin {"season", "episode"}

\* the call {type: 'tv', tmdbId: 1399, season: 1, episode: 1, provider:
\* 'filmex'}, answered by the proxy
C11_Witness ==
  /\ resolver.pc = "returned"
  /\ resolver.params = [type |-> "tv", tmdbId |-> 1399, season |-> 1,
                        episode |-> 1, provider |-> "filmex"]
  /\ Len(resolver.fetched) = 1
  /\ SearchParamsToString(resolver.fetched[1]) =
       "type=tv&provider=filmex&tmdbId=1399&season=1&episode=1"

(***************************************************************************)
(* Properties of Spec.                                                     *)
(***************************************************************************)
\* C1: over every interleaving of playback starts, provider switches, view
\* transitions, cricket attachments and resolution completions, at most one
\* Hls instance is constructed and not yet destroyed, and it is the one
\* currentHlsInstance tracks.
C1_AtMostOneHls ==
  /\ Cardinality(DOMAIN hls) <= 1
  /\ DOMAIN hls = {currentHlsInstance} \ {NoHls}

\* replays over one playing session (the only player rendered, no cricket
\* stream ever loaded): every instance but the last has been destroyed
C1_Witness ==
  /\ nextHls = MaxHls + 1
  /\ nextEl = 2
  /\ cricket.selectedMatchUrl = ""
  /\ currentPlayback.kind # "none"
  /\ DOMAIN hls = {MaxHls}
  /\ hls[MaxHls] = currentPlayback.el

\* C2: no stream-resolution request of a playback start is in flight for a
\* video element while an Hls instance left by an earlier start is still
\* live on that element (the start destroys it before it resolves).
C2_DestroyBeforeResolve ==
  \A r \in BagToSet(streamReqs) : ~\E h \in DOMAIN hls : hls[h] = r.el

\* C3: exactly one of the views home, detail, cricket is visible.
C3_ExactlyOneView ==
  \/ homeVisible /\ ~detailVisible /\ ~cricketVisible
  \/ ~homeVisible /\ detailVisible /\ ~cricketVisible
  \/ ~homeVisible /\ ~detailVisible /\ cricketVisible

\* the cricket view, shown over a detail page that a fetch completion rendered
C3_Witness ==
  /\ cricketVisible
  /\ detailHTML.page # "empty"
  /\ cricket.selectedMatchUrl # ""

\* the steps that are view transitions: showHome, showCricket and the detail
\* renders (renderMovieDetail, renderTvSeasons, renderSeasonEpisodes,
\* renderEpisodeDetail)
ViewTransition ==
  \/ HomeButtonClick
  \/ CricketButtonClick
  \/ BackToSeasonsClick
  \/ BackToEpisodesClick
  \/ \E f \in BagToSet(detailFetches) : DetailFetchDone(f, TRUE)

\* C4: every view transition leaves no Hls instance (currentHlsInstance is
\* null, nothing live), and currentPlayback null or the session of the player
\* the transition has just rendered.
C4_TransitionTearsDown ==
  [][ViewTransition =>
       /\ currentHlsInstance' = NoHls
       /\ DOMAIN hls' = {}
       /\ \/ currentPlayback' = NoPlayback
          \/ /\ nextEl' = nextEl + 1
             /\ currentPlayback'.el = nextEl
             /\ detailHTML'.el = nextEl]_vars

\* the cricket view, entered from a detail page whose player held the one Hls
\* instance of the run (its status was cleared on success): showCricket
\* destroyed it
C4_Witness ==
  /\ cricketVisible
  /\ browser = "hlsjs" /\ loadingUtils
  /\ nextHls = 2
  /\ detailHTML.el # 0
  /\ statusText[detailHTML.el] = ""
  /\ currentHlsInstance = NoHls
  /\ currentPlayback = NoPlayback

\* the parameters replayCurrentPlayback resolves session cp with
ReplayParams(cp, p) ==
  IF cp.kind = "movie"
  THEN [type |-> "movie", tmdbId |-> cp.movie, season |-> 0, episode |-> 0,
        provider |-> p]
  ELSE [type |-> "tv", tmdbId |-> cp.tv, season |-> cp.season,
        episode |-> cp.episode, provider |-> p]

C6_FailedStartLeavesVideoEmpty ==
  \A e \in DetailEls :
    statusText[e] \in ErrorTexts =>
      /\ videoSrc[e] = NoSrc
      /\ ~\E h \in DOMAIN hls : hls[h] = e

\* C13: a detail fetch in flight is never cancelled: whatever the user has
\* asked for since and whatever is on screen, its successful completion
\* makes the detail view the visible one and replaces the detail content
\* and currentPlayback by those of its own title (the session of the movie
\* or episode it renders a player for, null for a seasons or episodes page).
C13_StaleFetchRenders ==
  [][\A f \in BagToSet(detailFetches) :
       DetailFetchDone(f, TRUE) =>
         /\ detailVisible' /\ ~homeVisible' /\ ~cricketVisible'
         /\ detailHTML' =
              [page |-> CASE f.op = "movie" -> "movie" [] f.op = "tv" -> "seasons"
                          [] f.op = "season" -> "episodes"
                          [] f.op = "episode" -> "episode",
               movie |-> IF f.op = "movie" THEN f.id ELSE 0,
               tv |-> IF f.op = "movie" THEN 0 ELSE f.id,
               season |-> f.season, episode |-> f.episode,
               el |-> IF f.op \in {"movie", "episode"} THEN nextEl ELSE 0]
         /\ currentPlayback' =
              IF f.op = "movie"
              THEN [kind |-> "movie", movie |-> f.id, tv |-> 0, season |-> 0,
                    episode |-> 0, el |-> nextEl]
              ELSE IF f.op = "episode"
              THEN [kind |-> "tv", movie |-> 0, tv |-> f.id, season |-> f.season,
                    episode |-> f.episode, el |-> nextEl]
              ELSE NoPlayback]_vars

\* every fetch has ended and the page of a movie is on screen, with its
\* session, although the user asked for the cricket view last
C13_Witness ==
  /\ detailFetches = EmptyBag
  /\ lastClick.op = "cricket"
  /\ detailVisible /\ ~cricketVisible
  /\ detailHTML.page = "movie"
  /\ currentPlayback.kind = "movie"

\* C16: 'Back to seasons' and 'Back to episodes' put the seasons page of the
\* series on screen, and the episodes page of the season, from what the page
\* on screen holds: no request is issued, no Hls instance is left and
\* currentPlayback is null.
C16_BackButtonsRerender ==
  [][(BackToSeasonsClick \/ BackToEpisodesClick) =>
       /\ UNCHANGED <<detailFetches, streamReqs, cricketReqs, searchReqs>>
       /\ resolveCalls' = <<>>
       /\ detailHTML' =
            [page |-> IF detailHTML.page = "episodes" THEN "seasons"
                      ELSE "episodes",
             movie |-> 0, tv |-> detailHTML.tv,
             season |-> IF detailHTML.page = "episodes" THEN 0
                        ELSE detailHTML.season,
             episode |-> 0, el |-> 0]
       /\ detailVisible'
       /\ currentHlsInstance' = NoHls
       /\ DOMAIN hls' = {}
       /\ currentPlayback' = NoPlayback]_vars

\* the episodes page, asked for last, after the one player and the one Hls
\* instance of the run: 'Back to episodes' on a playing episode
C16_Witness ==
  /\ detailVisible /\ detailHTML.page = "episodes"
  /\ lastClick.op = "season"
  /\ nextEl = 2 /\ nextHls = 2
  /\ DOMAIN hls = {} /\ currentHlsInstance = NoHls
  /\ currentPlayback = NoPlayback
  /\ detailFetches = EmptyBag /\ streamReqs = EmptyBag

\* C17: a resolution that succeeds ends in one of three ways, by what the
\* browser supports.  With Hls.js: one new instance, which is
\* currentHlsInstance, the only one live and attached to the video of the
\* start, whose src is not set.  Without it and with native HLS: no
\* instance, and the src of the video (of the page on screen) is what was
\* resolved.  With neither: no instance, no src, and the status of the
\* player on screen shows 'HLS playback is not supported in this browser.'
C17_OneOutcomeBySupport ==
  [][\A req \in BagToSet(streamReqs) :
       StreamDone(req, "ok") =>
         CASE browser = "hlsjs" ->
                /\ nextHls' = nextHls + 1
                /\ currentHlsInstance' = nextHls
                /\ DOMAIN hls' = {nextHls}
                /\ hls'[nextHls] = req.el
                /\ videoSrc'[req.el] = NoSrc
           [] browser = "native" ->
                /\ nextHls' = nextHls
                /\ currentHlsInstance' = NoHls
                /\ DOMAIN hls' = {}
                /\ detailHTML.el = req.el => videoSrc'[req.el] = req.params
           [] browser = "none" ->
                /\ nextHls' = nextHls
                /\ currentHlsInstance' = NoHls
                /\ DOMAIN hls' = {}
                /\ videoSrc'[req.el] = NoSrc
                /\ detailHTML.el = req.el =>
                     statusText'[req.el] = MsgHlsUnsupported]_vars

\* a browser with neither: the player on screen shows the message, its
\* video has no src, no instance was ever made and nothing is in flight
C17_Witness ==
  /\ browser = "none"
  /\ detailHTML.el # 0
  /\ statusText[detailHTML.el] = MsgHlsUnsupported
  /\ videoSrc[detailHTML.el] = NoSrc
  /\ nextHls = 1 /\ currentHlsInstance = NoHls
  /\ streamReqs = EmptyBag

(***************************************************************************)
(* SpecProvider: the provider preference over a storage that may refuse to *)
(* be read or written, with calls of setCurrentProvider of any value and   *)
(* reloads of the page.                                                    *)
(***************************************************************************)
\* what setCurrentProvider may be called with
ProviderArgs == Providers \cup {"", "other"}

SetProviderCall(p, writable) ==
  Do(setCurrentProviderStorage(St, p, writable))

\* the page is loaded anew: its scripts run again over what the storage
\* holds; getItem may throw (readable = FALSE), which reads as no value
Reload(readable) ==
  Nav(ensureInitialized(showHome(
        [Loaded(storedProvider, browser, loadingUtils) EXCEPT
           !.currentProvider =
              getInitialProvider(IF readable THEN storedProvider ELSE "")])),
      Asked("home", 0, 0, 0))

NextProvider ==
  \/ \E p \in ProviderArgs, writable \in BOOLEAN : SetProviderCall(p, writable)
  \/ \E readable \in BOOLEAN : Reload(readable)
  \/ \E p \in Providers : ProviderClick(p)
  \/ \E card \in HomeCards : CardClick(card)
  \/ \E f \in BagToSet(detailFetches), ok \in BOOLEAN : DetailFetchDone(f, ok)
  \/ \E req \in BagToSet(streamReqs), outcome \in StreamOutcomes :
       StreamDone(req, outcome)

SpecProvider == Init /\ [][NextProvider]_vars

\* C14 as stated: the active provider is vidlink or filmex; a load reads a
\* stored value outside the two, or an unreadable storage, as vidlink;
\* setCurrentProvider of another value sets and stores vidlink; after
\* setCurrentProvider(p) of a valid p the active and the stored value are p.
C14_StoredAlwaysFollows ==
  /\ [](getCurrentProvider(St) \in Providers /\ currentProvider \in Providers)
  /\ [][\A readable \in BOOLEAN :
          Reload(readable) =>
            currentProvider' = IF readable /\ storedProvider \in Providers
                               THEN storedProvider ELSE "vidlink"]_vars
  /\ [][\A p \in ProviderArgs, writable \in BOOLEAN :
          SetProviderCall(p, writable) =>
            /\ currentProvider' = IF p \in Providers THEN p ELSE "vidlink"
            /\ storedProvider' = currentProvider']_vars

\* C14: the active provider is vidlink or filmex; a load reads a stored value
\* outside the two, or an unreadable storage, as vidlink; setCurrentProvider
\* of a valid p makes p the active provider and of any other value vidlink,
\* and the stored value becomes the same when the storage takes the write
\* and stays as it was when it does not.
C14_ProviderValid ==
  /\ [](getCurrentProvider(St) \in Providers /\ currentProvider \in Providers)
  /\ [][\A readable \in BOOLEAN :
          Reload(readable) =>
            currentProvider' = IF readable /\ storedProvider \in Providers
                               THEN storedProvider ELSE "vidlink"]_vars
  /\ [][\A p \in ProviderArgs, writable \in BOOLEAN :
          SetProviderCall(p, writable) =>
            /\ currentProvider' = IF p \in Providers THEN p ELSE "vidlink"
            /\ storedProvider' = IF writable THEN currentProvider'
                                 ELSE storedProvider]_vars

\* filmex is active and a value outside the two is still stored: the write
\* of setCurrentProvider('filmex') was refused
C14_Witness ==
  /\ currentProvider = "filmex"
  /\ storedProvider = "other"

(***************************************************************************)
(* SpecCricket: the cricket view alone, over a service that may fail or    *)
(* answer with empty lists.                                                *)
(***************************************************************************)
CricketAnswers(r) ==
  IF r.kind = "categories" THEN CategoryLists
  ELSE IF r.kind = "matches" THEN MatchLists(r.arg)
  ELSE StreamLists

NextCricket ==
  \/ HomeButtonClick
  \/ CricketButtonClick
  \/ \E i \in 1..2 : CategoryClick(i)
  \/ MatchClick(1)
  \/ \E i \in 1..2 : StreamChipClick(i)
  \/ \E r \in BagToSet(cricketReqs), ok \in BOOLEAN :
       \E data \in CricketAnswers(r) : CricketDone(r, ok, data)

SpecCricket == Init /\ [][NextCricket]_vars

(***************************************************************************)
(* SpecSearch: the search box of the page.  SpecSearchCalls adds direct    *)
(* calls of performSearch, which the page itself makes from the debounce   *)
(* timer only.                                                             *)
(***************************************************************************)
SearchInput(v) ==
  /\ v # searchValue
  /\ Len(timers) < MaxInflight
  /\ InstallSearch(onSearchInput(Ss, v))
  /\ UNCHANGED <<clientVars, resolver, proxy, rowVars, lastClick>>

SearchTimerFires(i) ==
  /\ i \in 1..Len(timers)
  /\ BagCardinality(searchReqs) < MaxInflight
  /\ InstallSearch(onSearchTimeout(Ss, i))
  /\ UNCHANGED <<clientVars, resolver, proxy, rowVars, lastClick>>

SearchDone(q, ok, results) ==
  /\ BagIn(q, searchReqs)
  /\ InstallSearch(performSearchDone([Ss EXCEPT !.reqs = Take(@, q)],
                                     ok, results))
  /\ UNCHANGED <<clientVars, resolver, proxy, rowVars, lastClick>>

\* a click outside the input and the dropdown
DocumentClick ==
  /\ InstallSearch(clearSearchResults(Ss))
  /\ UNCHANGED <<clientVars, resolver, proxy, rowVars, lastClick>>

SearchResultClick(i) ==
  /\ ~searchResults.hidden
  /\ i \in 1..Len(searchResults.items)
  /\ InstallSearch(onResultClick(Ss, searchResults.items[i]))
  /\ DoClient(navigateToItem(St, searchResults.items[i],
                             searchResults.items[i].media_type))
  /\ lastClick' = Asked(searchResults.items[i].media_type,
                        searchResults.items[i].id, 0, 0)
  /\ UNCHANGED <<resolver, proxy, rowVars>>

PerformSearchCall(v) ==
  /\ BagCardinality(searchReqs) < MaxInflight
  /\ InstallSearch(performSearch(Ss, v))
  /\ UNCHANGED <<clientVars, resolver, proxy, rowVars, lastClick>>

NextSearch ==
  \/ \E v \in SearchValues : SearchInput(v)
  \/ \E i \in 1..MaxInflight : SearchTimerFires(i)
  \/ \E q \in BagToSet(searchReqs), ok \in BOOLEAN, results \in SearchAnswers :
       SearchDone(q, ok, results)
  \/ DocumentClick
  \/ \E i \in 1..2 : SearchResultClick(i)

SpecSearch == InitOnePage /\ [][NextSearch]_vars

NextSearchCalls ==
  \/ NextSearch
  \/ \E v \in SearchValues : PerformSearchCall(v)

SpecSearchCalls == InitOnePage /\ [][NextSearchCalls]_vars

\* C8: for an empty or whitespace-only value, onSearchInput and performSearch
\* issue no request to /api/search/multi and leave the results list empty
\* and hidden.
C8_BlankSearchIssuesNothing ==
  [][\A v \in SearchValues :
       (Len(Trim(v)) = 0 /\ (SearchInput(v) \/ PerformSearchCall(v))) =>
         /\ searchReqs' = searchReqs
         /\ searchResults' = NoResults]_vars

\* the input was blanked while the request of an earlier value is in flight
\* and its timer is spent: the list is empty and hidden
C8_Witness ==
  /\ Len(searchValue) > 0 /\ Len(Trim(searchValue)) = 0
  /\ searchTimeout # NoTimeout /\ timers = <<>>
  /\ searchReqs # EmptyBag
  /\ searchResults = NoResults

(***************************************************************************)
(* SpecRows: the four fetches of initRows end, in any order and each in    *)
(* any way.  The browser ends every fetch, with a response or an error.    *)
(***************************************************************************)
\* the fetch of row k ends; Promise.all rejects with the first promise that
\* rejects and is fulfilled once all are
RowDone(k, outcome) ==
  /\ rows[k].settled = "pending"
  /\ rows' = [rows EXCEPT ![k] = loadRowDone(rowsConfig[k], outcome)]
  /\ initRowsPromise' =
       IF initRowsPromise # "pending" THEN initRowsPromise
       ELSE IF \E j \in DOMAIN rows : rows'[j].settled = "rejected"
       THEN "rejected"
       ELSE IF \A j \in DOMAIN rows : rows'[j].settled = "fulfilled"
       THEN "fulfilled"
       ELSE "pending"
  /\ UNCHANGED <<clientVars, resolver, searchVars, proxy, lastClick>>

NextRows ==
  \E k \in 1..Len(rowsConfig) : \E outcome \in RowOutcomes(k) : RowDone(k, outcome)

SpecRows == InitOnePage /\ [][NextRows]_vars /\ WF_vars(NextRows)

\* C12: the four row fetches are in flight together from the start and end
\* in any order; the end of one row's fetch changes that row's container
\* only; a row whose fetch failed holds 'Failed to load content.' and nothing
\* else, a row whose fetch succeeded holds the cards of its own first titles
\* with its own type, or 'No titles available.'; the promise of initRows is
\* never rejected and is fulfilled in the end.
C12_RowsIndependent ==
  /\ [](\A k \in DOMAIN rows :
          /\ rows[k].settled # "rejected"
          /\ rows[k].settled = "pending" => rows[k].content = <<>>
          /\ rows[k].settled = "fulfilled" =>
               IF ~rows[k].fetch.ok
               THEN rows[k].content = <<"Failed to load content.">>
               ELSE IF rows[k].fetch.results = <<>>
               THEN rows[k].content = <<"No titles available.">>
               ELSE /\ Len(rows[k].content) \in 1..RowLimit
                    /\ Len(rows[k].content) =
                         IF Len(rows[k].fetch.results) < RowLimit
                         THEN Len(rows[k].fetch.results) ELSE RowLimit
                    /\ \A i \in 1..Len(rows[k].content) :
                         rows[k].content[i] =
                           [item |-> rows[k].fetch.results[i],
                            typeHint |-> rowsConfig[k].type])
  /\ [](initRowsPromise # "rejected")
  /\ [][\A k \in DOMAIN rows :
          rows'[k] # rows[k] => \A j \in DOMAIN rows \ {k} : rows'[j] = rows[j]]_vars
  /\ <>(initRowsPromise = "fulfilled")

\* the last row ended before the first, two rows failed and two succeeded
C12_Witness ==
  /\ rows[1].settled = "pending"
  /\ rows[2].settled = "fulfilled" /\ ~rows[2].fetch.ok
  /\ rows[3].settled = "fulfilled" /\ Len(rows[3].content) = RowLimit
  /\ rows[4].settled = "fulfilled" /\ ~rows[4].fetch.ok
  /\ initRowsPromise = "pending"

\* C19: a click on a result of the dropdown leaves the dropdown empty and
\* hidden; for a movie with an id it issues the one fetch that opens the
\* movie, for a series with an id the one that opens the series, and for
\* any other type or a result without id it issues nothing; the visible
\* view stays as it is.
C19_ResultClickDispatches ==
  [][\A i \in 1..Len(searchResults.items) :
       SearchResultClick(i) =>
         LET item == searchResults.items[i]
         IN /\ searchResults' = NoResults
            /\ detailFetches' =
                 IF item.id # 0 /\ item.media_type \in {"movie", "tv"}
                 THEN Put(detailFetches,
                          [op |-> item.media_type, id |-> item.id,
                           season |-> 0, episode |-> 0])
                 ELSE detailFetches
            /\ UNCHANGED <<streamReqs, cricketReqs, searchReqs>>
            /\ UNCHANGED <<homeVisible, detailVisible, cricketVisible,
                           detailHTML>>]_vars

\* the click on a person of the dropdown: it is the last thing asked for,
\* the input holds the name, the dropdown is empty and hidden and no detail
\* fetch is in flight
C19_Witness ==
  /\ lastClick.op = "person"
  /\ searchValue = PersonResult.title
  /\ searchResults = NoResults
  /\ detailFetches = EmptyBag

\* C20: at most one debounce timer is pending; after an input event no
\* timer set before it is pending (only the one it has set itself, for a
\* value that is not blank); and a search request is added only by the
\* callback of the pending timer, for the value of the input event that set
\* it, trimmed and encoded.
C20_Debounced ==
  /\ [](Len(timers) <= 1)
  /\ [][\A v \in SearchValues :
          SearchInput(v) =>
            timers' = IF Len(Trim(v)) = 0 THEN <<>>
                      ELSE <<[value |-> v, latest |-> TRUE]>>]_vars
  /\ [][searchReqs' # searchReqs =>
          \/ \E q \in BagToSet(searchReqs) : searchReqs' = Take(searchReqs, q)
          \/ /\ Len(timers) = 1 /\ timers' = <<>>
             /\ searchReqs' =
                  Put(searchReqs, encodeURIComponent(Trim(timers[1].value)))]_vars

\* the request of an earlier value is in flight while the timer of the
\* value typed after it is pending
C20_Witness ==
  /\ searchReqs = SetToBag({<<"a">>})
  /\ Len(timers) = 1
  /\ timers[1].value = <<"a", "a">>
  /\ searchValue = <<"a", "a">>

(***************************************************************************)
(* SpecProxy: the proxy receives requests and its upstream calls end.      *)
(***************************************************************************)
ProxyRequest(req) ==
  /\ Len(proxy) < MaxRequests
  /\ proxy' = Append(proxy, proxyHandle(req))
  /\ UNCHANGED <<clientVars, resolver, searchVars, rowVars, lastClick>>

UpstreamDone(i, outcome) ==
  /\ i \in 1..Len(proxy)
  /\ proxy[i].pending
  /\ proxy' = [proxy EXCEPT ![i] = proxyHandleDone(@, outcome)]
  /\ UNCHANGED <<clientVars, resolver, searchVars, rowVars, lastClick>>

NextProxy ==
  \/ \E req \in ProxyRequests : ProxyRequest(req)
  \/ \E i \in 1..MaxRequests, outcome \in UpstreamOutcomes :
       UpstreamDone(i, outcome)

SpecProxy == InitOnePage /\ [][NextProxy]_vars

\* C9: a search request whose query is absent or empty is answered
\* {results: []} with no upstream call; one with a query makes exactly one
\* upstream call, of /search/multi with that query.
C9_SearchShortCircuit ==
  \A i \in 1..Len(proxy) :
    proxy[i].req.endpoint = "search" =>
      IF ~proxy[i].req.query.present \/ proxy[i].req.query.value = ""
      THEN /\ proxy[i].upstream = <<>>
           /\ proxy[i].responses =
                <<[status |-> 200, body |-> EmptyResultsValue]>>
      ELSE /\ Len(proxy[i].upstream) = 1
           /\ proxy[i].upstream[1].path = "/search/multi"
           /\ proxy[i].upstream[1].query = proxy[i].req.query.value

\* a search with an empty query answered on the spot, beside one with a
\* query whose single upstream call has ended
C9_Witness ==
  /\ Len(proxy) = MaxRequests
  /\ \E i \in 1..Len(proxy) :
       /\ proxy[i].req.endpoint = "search"
       /\ proxy[i].req.query = [present |-> TRUE, value |-> ""]
       /\ proxy[i].upstream = <<>>
       /\ Len(proxy[i].responses) = 1
  /\ \E i \in 1..Len(proxy) :
       /\ proxy[i].req.endpoint = "search"
       /\ proxy[i].req.query.value # ""
       /\ ~proxy[i].pending
       /\ Len(proxy[i].upstream) = 1

\* the response a request is owed for the end of its upstream call
Relayed(entry, response) ==
  IF entry.outcome.kind = "ok"
  THEN /\ response.status = 200
       /\ JsonParse(response.body) = JsonParse(entry.outcome.text)
  ELSE /\ JsonParse(response.body) = ErrorValue
       /\ response.status = IF entry.outcome.kind = "status"
                             THEN entry.outcome.status ELSE 500

\* C10 as stated: every request gets exactly one response, the upstream
\* JSON when its upstream call succeeded and otherwise the error body with
\* the upstream status or 500.
C10_EveryRequestRelayed ==
  \A i \in 1..Len(proxy) :
    IF proxy[i].pending THEN proxy[i].responses = <<>>
    ELSE /\ Len(proxy[i].responses) = 1
         /\ Relayed(proxy[i], proxy[i].responses[1])

\* C10: every request that makes an upstream call gets exactly one response
\* when the call ends, the upstream JSON when the call succeeded and
\* otherwise the error body with the upstream status or 500; a search
\* request without query makes no upstream call and gets exactly one
\* response, {results: []}.
C10_RelayedUnlessShortCircuit ==
  \A i \in 1..Len(proxy) :
    IF proxy[i].pending THEN proxy[i].responses = <<>>
    ELSE /\ Len(proxy[i].responses) = 1
         /\ IF proxy[i].upstream = <<>>
            THEN /\ proxy[i].req.endpoint = "search"
                 /\ proxy[i].responses[1] =
                      [status |-> 200, body |-> EmptyResultsValue]
            ELSE Relayed(proxy[i], proxy[i].responses[1])

\* a detail request whose upstream JSON (with white space) was relayed, beside
\* a request whose upstream call ended without a response: status 500
C10_Witness ==
  /\ \E i \in 1..Len(proxy) :
       /\ proxy[i].req.endpoint = "movie"
       /\ proxy[i].outcome.kind = "ok"
       /\ proxy[i].outcome.text # JsonParse(proxy[i].outcome.text)
       /\ Len(proxy[i].responses) = 1
  /\ \E i \in 1..Len(proxy) :
       /\ proxy[i].outcome.kind = "noresponse"
       /\ proxy[i].responses = <<[status |-> 500, body |-> ErrorValue]>>

(***************************************************************************)
(* SpecNoRetry: titles opened from the home cards, their playback and the  *)
(* start of the cricket view over requests that may fail, beside the proxy *)
(* over upstream calls of its movie and search endpoints that may fail.    *)
(***************************************************************************)
NextNoRetry ==
  \/ \E card \in HomeCards : CardClick(card)
  \/ \E f \in BagToSet(detailFetches), ok \in BOOLEAN : DetailFetchDone(f, ok)
  \/ \E p \in Providers : ProviderClick(p)
  \/ \E req \in BagToSet(streamReqs), outcome \in StreamOutcomes :
       StreamDone(req, outcome)
  \/ \E r \in BagToSet(cricketReqs), ok \in BOOLEAN :
       CricketDone(r, ok, CricketData(r))
  \/ \E req \in {x \in ProxyRequests : x.endpoint \in {"movie", "search"}} :
       ProxyRequest(req)
  \/ \E i \in 1..MaxRequests, outcome \in UpstreamOutcomes :
       UpstreamDone(i, outcome)

SpecNoRetry == InitOnePage /\ [][NextNoRetry]_vars

\* C15: nothing is asked twice.  A step makes at most one call of
\* fetchStreamUrlV2 and adds at most one stream request; a proxy request has
\* made at most one upstream call; and the failure of a request of the page
\* (detail, stream, cricket) or of an upstream call of the proxy takes that
\* request away and issues no other.
C15_NothingRetried ==
  /\ [](\A i \in 1..Len(proxy) : Len(proxy[i].upstream) <= 1)
  /\ [][/\ Len(resolveCalls') <= 1
        /\ BagCardinality(streamReqs') <= BagCardinality(streamReqs) + 1
        /\ \A f \in BagToSet(detailFetches) :
             DetailFetchDone(f, FALSE) =>
               /\ detailFetches' = Take(detailFetches, f)
               /\ UNCHANGED <<streamReqs, cricketReqs, searchReqs>>
        /\ \A req \in BagToSet(streamReqs), outcome \in StreamOutcomes \ {"ok"} :
             StreamDone(req, outcome) =>
               /\ streamReqs' = Take(streamReqs, req)
               /\ resolveCalls' = <<>>
               /\ UNCHANGED <<detailFetches, cricketReqs, searchReqs>>
        /\ \A r \in BagToSet(cricketReqs) :
             CricketDone(r, FALSE, CricketData(r)) =>
               /\ cricketReqs' = Take(cricketReqs, r)
               /\ UNCHANGED <<detailFetches, streamReqs, searchReqs>>
        /\ \A i \in 1..Len(proxy), outcome \in UpstreamOutcomes :
             (outcome.kind # "ok" /\ UpstreamDone(i, outcome)) =>
               /\ Len(proxy') = Len(proxy)
               /\ \A j \in 1..Len(proxy) :
                    proxy'[j].upstream = proxy[j].upstream]_vars

\* a playback start has failed and nothing of the page is in flight, and an
\* upstream call of the proxy has failed and stays its request's only one
C15_Witness ==
  /\ \E e \in DetailEls : statusText[e] = MsgContactFailed
  /\ streamReqs = EmptyBag /\ detailFetches = EmptyBag /\ cricketReqs = EmptyBag
  /\ \E i \in 1..Len(proxy) :
       /\ proxy[i].outcome.kind = "status"
       /\ ~proxy[i].pending
       /\ Len(proxy[i].upstream) = 1

(***************************************************************************)
(* SpecAnswers: calls of fetchStreamUrlV2 and the playback starts of the   *)
(* movie page, over every answer of the stream proxy.                      *)
(***************************************************************************)
\* the request of a playback start ends with the answer data
StreamAnswered(req, data) ==
  StreamDone(req, IF fetchStreamUrlV2Done(data) = "" THEN "ok"
                  ELSE fetchStreamUrlV2Done(data))

NextAnswers ==
  \/ \E params \in {x \in ResolveParams :
                       x.tmdbId = 7 /\ x.season = 1 /\ x.episode = 1} :
       ResolveCall(params)
  \/ \E data \in StreamAnswers : ResolveDone(data)
  \/ \E card \in {c \in HomeCards : c.typeHint = "movie"} : CardClick(card)
  \/ \E f \in BagToSet(detailFetches), ok \in BOOLEAN : DetailFetchDone(f, ok)
  \/ \E req \in BagToSet(streamReqs), data \in StreamAnswers :
       StreamAnswered(req, data)
  \/ \E r \in BagToSet(cricketReqs) : CricketDone(r, TRUE, CricketData(r))

SpecAnswers == InitOnePage /\ [][NextAnswers]_vars

\* C18: fetchStreamUrlV2 returns exactly when the answer is an object with ok
\* true and a url.  Without an answer (network or JSON failure) it throws
\* 'Failed to contact streaming proxy.'; for any other answer it throws the
\* answer's message, else its error, else 'Streaming is not available for
\* this title right now.', with the answer's error as code and its details.
\* The message thrown in a playback start is the status text of its player.
C18_ResolutionErrors ==
  /\ [](LET a == resolver.answer
        IN a # Unanswered =>
             IF a \notin {NoAnswer, NullAnswer} /\ a.ok = "true" /\ a.url # ""
             THEN resolver.pc = "returned" /\ resolver.thrown = ""
             ELSE /\ resolver.pc = "thrown"
                  /\ resolver.thrown =
                       IF a = NoAnswer THEN MsgContactFailed
                       ELSE IF a.message # "" THEN a.message
                       ELSE IF a.error # "" THEN a.error
                       ELSE MsgNotAvailable
                  /\ resolver.code = a.error
                  /\ resolver.details = a.details)
  /\ [][\A req \in BagToSet(streamReqs), data \in StreamAnswers :
          (/\ StreamAnswered(req, data)
           /\ data \in {NoAnswer, NullAnswer} \/ data.ok # "true" \/ data.url = ""
           /\ detailHTML.el = req.el) =>
            statusText'[req.el] =
              IF data = NoAnswer THEN MsgContactFailed
              ELSE IF data.message # "" THEN data.message
              ELSE IF data.error # "" THEN data.error
              ELSE MsgNotAvailable]_vars

\* an answer with ok false, no message and an error: the call has thrown
\* the error text, with it as code, and a player on screen shows it
C18_Witness ==
  /\ resolver.pc = "thrown"
  /\ resolver.answer.ok = "false"
  /\ resolver.answer.message = "" /\ resolver.answer.error = MsgProxyError
  /\ resolver.thrown = MsgProxyError /\ resolver.code = MsgProxyError
  /\ resolver.details = "proxy: details"
  /\ detailHTML.el # 0
  /\ statusText[detailHTML.el] = MsgProxyError

(***************************************************************************)
(* the content of the views that are not shown                             *)
(***************************************************************************)
\* C21: whenever the detail view is not visible (home or cricket is shown)
\* the detail panel has no rendered content.
C21_HiddenDetailIsEmpty ==
  ~detailVisible => detailHTML = EmptyPage

(***************************************************************************)
(* resolutions that overlap                                                *)
(***************************************************************************)
\* C22: once no stream resolution is in flight, the stream attached to the
\* video element of the active session was resolved with the provider that
\* is selected now.  (A source set on the element itself carries the
\* parameters it was resolved with.)
C22_AttachedStreamOfSelectedProvider ==
  (/\ streamReqs = EmptyBag
   /\ currentPlayback.kind # "none"
   /\ videoSrc[currentPlayback.el] # NoSrc)
    => videoSrc[currentPlayback.el].provider = currentProvider

\* C23: while the home view is visible no Hls instance is live:
\* currentHlsInstance is null.
C23_NoHlsAtHome ==
  homeVisible => currentHlsInstance = NoHls

\* C24: the completion of a movie or episode stream resolution while a
\* cricket stream is playing in the cricket view leaves the Hls instance of
\* the cricket player live and current.
C24_StaleResolutionKeepsCricketPlayer ==
  [][\A req \in BagToSet(streamReqs), outcome \in StreamOutcomes :
       (/\ cricketVisible
        /\ currentHlsInstance # NoHls
        /\ hls[currentHlsInstance] = CricketEl
        /\ StreamDone(req, outcome))
         => /\ currentHlsInstance' = currentHlsInstance
            /\ currentHlsInstance \in DOMAIN hls'
            /\ hls'[currentHlsInstance] = CricketEl]_vars

(***************************************************************************)
(* search responses that arrive late                                       *)
(***************************************************************************)
\* C25: whenever no search request is in flight and no debounce timer is
\* pending, the dropdown reflects the value of the input: it is empty (no
\* items, hidden) when the input is blank.
C25_DropdownFollowsInput ==
  (/\ searchReqs = EmptyBag
   /\ timers = <<>>
   /\ Len(Trim(searchValue)) = 0)
    => searchResults = NoResults

(***************************************************************************)
(* the cricket view: initialisation and overlapping loads                  *)
(***************************************************************************)
\* C26: loadCategories is invoked at most once per page load: the request
\* of the call that the load of the page makes is the only one, and no later
\* trigger of ensureInitialized (every showCricket) issues another.
C26_CategoriesLoadedOnce ==
  /\ [](/\ cricket.initialized
        /\ CopiesIn([kind |-> "categories", arg |-> ""], cricketReqs) <= 1)
  /\ [][CopiesIn([kind |-> "categories", arg |-> ""], cricketReqs')
          <= CopiesIn([kind |-> "categories", arg |-> ""], cricketReqs)]_vars

\* showCricket has triggered ensureInitialized again after the categories
\* were loaded: the view is shown and no categories request is in flight
C26_Witness ==
  /\ cricketVisible
  /\ cricket.initialized
  /\ Len(cricket.categories) > 0
  /\ ~BagIn([kind |-> "categories", arg |-> ""], cricketReqs)

\* C27: once no cricket request is in flight, state.matches is a match list
\* of the category state.selectedCategorySlug names (the one the service
\* returned for it, or the empty list), and empty when none is selected.
C27_MatchesOfSelectedCategory ==
  cricketReqs = EmptyBag =>
    IF cricket.selectedCategorySlug = ""
    THEN cricket.matches = <<>>
    ELSE cricket.matches \in MatchLists(cricket.selectedCategorySlug)

\* C30: the error of the cricket view reflects only the most recent load: a
\* load that completes successfully leaves state.error null; and
\* state.loading is false whenever no cricket request is in flight.
C30_ErrorOfLatestLoad ==
  /\ [](cricketReqs = EmptyBag => ~cricket.loading)
  /\ [][\A r \in BagToSet(cricketReqs) :
          \A data \in CricketAnswers(r) :
            CricketDone(r, TRUE, data) => cricket'.error = ""]_vars

(***************************************************************************)
(* SpecToasts: one page with LoadingUtils, its cricket view and the        *)
(* opening of a movie.  The requests in flight complete eventually (the    *)
(* browser ends every fetch with a response or an error); nothing obliges  *)
(* the user to click.                                                      *)
(***************************************************************************)
Completion ==
  \/ \E r \in BagToSet(cricketReqs), ok \in BOOLEAN :
       \E data \in CricketAnswers(r) : CricketDone(r, ok, data)
  \/ \E f \in BagToSet(detailFetches), ok \in BOOLEAN : DetailFetchDone(f, ok)
  \/ \E req \in BagToSet(streamReqs), outcome \in StreamOutcomes :
       StreamDone(req, outcome)

NextToasts ==
  \/ HomeButtonClick
  \/ CricketButtonClick
  \/ \E card \in {c \in HomeCards : c.typeHint = "movie" /\ c.item.id = 1} :
       CardClick(card)
  \/ \E i \in 1..2 : CategoryClick(i)
  \/ MatchClick(1)
  \/ Completion

SpecToasts == InitOnePage /\ [][NextToasts]_vars /\ WF_vars(Completion)

\* C28: every persistent 'loading' toast is removed eventually: whenever a
\* loading toast is in the document, a state without one follows.
C28_LoadingToastRemoved ==
  (loadingToast # NoToast) ~> (loadingToast = NoToast)

(***************************************************************************)
(* playback starts of a page without LoadingUtils                          *)
(***************************************************************************)
\* C29: with LoadingUtils absent the status text of a playback start is the
\* one the plain startMoviePlayback / startEpisodePlayback of app.js show:
\* 'Resolving stream via <provider>...' once a provider click has started
\* the resolution, and, when the resolution for the player of the active
\* session completes, empty after a successful start and the error message
\* after a failed one.
C29_PlainStatusWithoutLoadingUtils ==
  [][/\ \A p \in Providers :
          (/\ ~loadingUtils
           /\ currentPlayback.kind # "none"
           /\ ValidationError(ReplayParams(currentPlayback, p)) = ""
           /\ ProviderClick(p))
            => statusText'[currentPlayback.el] = ResolvingText(p)
     /\ \A req \in BagToSet(streamReqs), outcome \in StreamOutcomes :
          (/\ ~loadingUtils
           /\ currentPlayback.kind # "none"
           /\ req.el = currentPlayback.el
           /\ StreamDone(req, outcome))
            => statusText'[req.el] =
                 IF outcome = "ok"
                 THEN IF browser \in {"hlsjs", "native"} THEN ""
                      ELSE MsgHlsUnsupported
                 ELSE IF outcome = "network" THEN MsgContactFailed
                 ELSE outcome]_vars

====
